---------------------------- MODULE Spec2Model ----------------------------
(***************************************************************************)
(* Model of src/app.js: the palindrome checker (normalizeWord,             *)
(* isPalindrome), the query logger (logQuery) and the HTTP request handler *)
(* passed to http.createServer.                                            *)
(*                                                                         *)
(* Text is a sequence of UTF-16 code units (naturals), as a JavaScript     *)
(* string is; the file consultas.txt is a sequence of bytes, the UTF-8 of  *)
(* the lines appended to it.  The Unicode operators below (toLowerCase, normalizeNFD,     *)
(* trim) are given for the code units 0..255, 304, 768..879 and           *)
(* 1040..1103; no input of the model leaves that domain.  Query strings    *)
(* are ASCII and their percent escapes name bytes below %80, so that       *)
(* decoding an escape never involves UTF-8 sequences of several bytes.     *)
(***************************************************************************)
EXTENDS Naturals, Sequences, FiniteSets

VARIABLES
  word,      \* SpecNorm: the argument given to normalizeWord / isPalindrome
  norm,      \* SpecNorm: normalizeWord(word)
  renorm,    \* SpecNorm: normalizeWord(norm)
  verdict,   \* SpecNorm: isPalindrome(word)
  npc,       \* SpecNorm: which of the calls have been made
  handlers,  \* server: one record per request, the handler invocation's state
  log        \* server: the content of consultas.txt, as bytes

vars == <<word, norm, renorm, verdict, npc, handlers, log>>
normVars == <<word, norm, renorm, verdict, npc>>
serverVars == <<handlers, log>>

---------------------------------------------------------------------------
(* Bounds of the model.                                                    *)

\* longest text given to normalizeWord / isPalindrome in SpecNorm
MaxLen == 3
\* most key=value segments in a query string in SpecRoute
MaxPairs == 2
\* longest raw value of a segment in SpecRoute (two longer ones are added)
MaxValLen == 1
\* number of requests the server receives in Spec / SpecFair
MaxReq == 2
\* most write calls, over all the appends of a run, that write fewer bytes
\* than they were given
MaxShortWrites == 1

---------------------------------------------------------------------------
(* Sequence helpers.                                                       *)

RECURSIVE Flatten(_)
\* the concatenation of a sequence of sequences
Flatten(ss) ==
  IF ss = <<>> THEN <<>> ELSE Head(ss) \o Flatten(Tail(ss))

\* all sequences over S of length at most n
SeqsUpTo(S, n) ==
  UNION {[1..k -> S] : k \in 0..n}

\* the literal "s" as a JavaScript value handed to String(input ?? '')
Str(s) ==
  [kind |-> "string", text |-> s]

---------------------------------------------------------------------------
(* The normalizer and the checker (src/app.js:48-62).                      *)

\* String.prototype.toLowerCase on one code unit: ASCII and Latin-1 capitals
\* (not the multiplication sign 215), Cyrillic capitals, and U+0130 whose
\* lower case is i followed by U+0307.
LowerUnit(c) ==
  IF c \in 65..90 THEN <<c + 32>>
  ELSE IF c \in 192..222 /\ c # 215 THEN <<c + 32>>
  ELSE IF c \in 1040..1071 THEN <<c + 32>>
  ELSE IF c = 304 THEN <<105, 775>>
  ELSE <<c>>

\* String.prototype.toLowerCase
toLowerCase(s) ==
  Flatten([i \in 1..Len(s) |-> LowerUnit(s[i])])

\* canonical decomposition of one code unit: the letters of the domain that
\* carry an accent decompose into the base letter and a combining mark, and
\* four combining marks decompose into other marks
DecomposeUnit(c) ==
  CASE c = 192 -> <<65, 768>> [] c = 193 -> <<65, 769>> [] c = 194 -> <<65, 770>>
    [] c = 195 -> <<65, 771>> [] c = 196 -> <<65, 776>> [] c = 197 -> <<65, 778>>
    [] c = 199 -> <<67, 807>> [] c = 200 -> <<69, 768>> [] c = 201 -> <<69, 769>>
    [] c = 202 -> <<69, 770>> [] c = 203 -> <<69, 776>> [] c = 204 -> <<73, 768>>
    [] c = 205 -> <<73, 769>> [] c = 206 -> <<73, 770>> [] c = 207 -> <<73, 776>>
    [] c = 209 -> <<78, 771>> [] c = 210 -> <<79, 768>> [] c = 211 -> <<79, 769>>
    [] c = 212 -> <<79, 770>> [] c = 213 -> <<79, 771>> [] c = 214 -> <<79, 776>>
    [] c = 217 -> <<85, 768>> [] c = 218 -> <<85, 769>> [] c = 219 -> <<85, 770>>
    [] c = 220 -> <<85, 776>> [] c = 221 -> <<89, 769>> [] c = 224 -> <<97, 768>>
    [] c = 225 -> <<97, 769>> [] c = 226 -> <<97, 770>> [] c = 227 -> <<97, 771>>
    [] c = 228 -> <<97, 776>> [] c = 229 -> <<97, 778>> [] c = 231 -> <<99, 807>>
    [] c = 232 -> <<101, 768>> [] c = 233 -> <<101, 769>> [] c = 234 -> <<101, 770>>
    [] c = 235 -> <<101, 776>> [] c = 236 -> <<105, 768>> [] c = 237 -> <<105, 769>>
    [] c = 238 -> <<105, 770>> [] c = 239 -> <<105, 776>> [] c = 241 -> <<110, 771>>
    [] c = 242 -> <<111, 768>> [] c = 243 -> <<111, 769>> [] c = 244 -> <<111, 770>>
    [] c = 245 -> <<111, 771>> [] c = 246 -> <<111, 776>> [] c = 249 -> <<117, 768>>
    [] c = 250 -> <<117, 769>> [] c = 251 -> <<117, 770>> [] c = 252 -> <<117, 776>>
    [] c = 253 -> <<121, 769>> [] c = 255 -> <<121, 776>>
    [] c = 304 -> <<73, 775>> [] c = 1049 -> <<1048, 774>> [] c = 1081 -> <<1080, 774>>
    [] c = 832 -> <<768>> [] c = 833 -> <<769>> [] c = 835 -> <<787>>
    [] c = 836 -> <<776, 769>>
    [] OTHER -> <<c>>

\* the canonical combining class of a code unit of the domain: 0 for every
\* unit but the combining marks of 768..879
CombiningClass(c) ==
  IF c \in 820..824 THEN 1
  ELSE IF c \in {801, 802, 807, 808} THEN 202
  ELSE IF c = 795 THEN 216
  ELSE IF c \in (790..793) \cup (796..800) \cup (803..806) \cup (809..819)
            \cup (825..828) \cup (839..841) \cup {845, 846} \cup (851..854)
            \cup {857, 858} THEN 220
  ELSE IF c \in (768..788) \cup (829..836) \cup {838} \cup (842..844)
            \cup (848..850) \cup {855, 859} \cup (867..879) THEN 230
  ELSE IF c \in {789, 794, 856} THEN 232
  ELSE IF c \in {860, 863, 866} THEN 233
  ELSE IF c \in {861, 862, 864, 865} THEN 234
  ELSE IF c = 837 THEN 240
  ELSE 0

RECURSIVE InsertMark(_, _)
\* c added to the end of s, then moved before the marks of a higher class
\* that end s; a unit of class 0 stays where it is and nothing passes it
InsertMark(s, c) ==
  IF s = <<>> \/ CombiningClass(c) = 0
       \/ CombiningClass(s[Len(s)]) <= CombiningClass(c)
  THEN Append(s, c)
  ELSE Append(InsertMark(SubSeq(s, 1, Len(s) - 1), c), s[Len(s)])

RECURSIVE CanonicalOrder(_)
\* the canonical ordering of NFD: each run of combining marks sorted by
\* class, marks of one class keeping their order
CanonicalOrder(s) ==
  IF s = <<>> THEN <<>>
  ELSE InsertMark(CanonicalOrder(SubSeq(s, 1, Len(s) - 1)), s[Len(s)])

\* String.prototype.normalize('NFD'): every unit decomposed, then the marks
\* put in canonical order
normalizeNFD(s) ==
  CanonicalOrder(Flatten([i \in 1..Len(s) |-> DecomposeUnit(s[i])]))

\* the class [\u0300-\u036f]
IsDiacritic(c) ==
  c \in 768..879

\* the class [a-z0-9]
IsAlnum(c) ==
  c \in 97..122 \/ c \in 48..57

\* .replace(/[\u0300-\u036f]/g, '')
StripDiacritics(s) ==
  SelectSeq(s, LAMBDA c : ~IsDiacritic(c))

\* .replace(/[^a-z0-9]/g, '')
KeepAlnum(s) ==
  SelectSeq(s, LAMBDA c : IsAlnum(c))

\* String(input ?? ''): null and undefined become the empty string
StringOf(input) ==
  IF input.kind \in {"null", "undefined"} THEN <<>> ELSE input.text

RECURSIVE DropFirstNonAlnum(_)
\* .replace(/[^a-z0-9]/, '') without the g flag: only the first match goes
DropFirstNonAlnum(s) ==
  IF s = <<>> THEN <<>>
  ELSE IF ~IsAlnum(Head(s)) THEN Tail(s)
  ELSE <<Head(s)>> \o DropFirstNonAlnum(Tail(s))

\* normalizeWord with the g flag of the last replace forgotten
normalizeWordNoGlobal(input) ==
  DropFirstNonAlnum(StripDiacritics(normalizeNFD(toLowerCase(StringOf(input)))))

\* normalizeWord with the toLowerCase call forgotten
normalizeWordNoLower(input) ==
  KeepAlnum(StripDiacritics(normalizeNFD(StringOf(input))))

normalizeWord(input) ==
  KeepAlnum(StripDiacritics(normalizeNFD(toLowerCase(StringOf(input)))))

\* n.split('').reverse().join(''): the code units in reverse order
Reversed(n) ==
  [i \in 1..Len(n) |-> n[Len(n) + 1 - i]]

\* isPalindrome without the test for the empty normalized form
isPalindromeVacuous(w) ==
  LET n == normalizeWord(w) IN n = Reversed(n)

isPalindrome(w) ==
  LET n == normalizeWord(w)
  IN  IF n = <<>> THEN FALSE ELSE n = Reversed(n)

---------------------------------------------------------------------------
(* Literal texts of src/app.js, as code units.                             *)

\* 'Method Not Allowed' (line 79)
TxtMethodNotAllowed ==
  <<77, 101, 116, 104, 111, 100, 32, 78, 111, 116, 32, 65, 108, 108, 111,
    119, 101, 100>>

\* the 400 message (line 112)
TxtFalta ==
  <<70, 97, 108, 116, 97, 32, 101, 108, 32, 112, 97, 114, 225, 109, 101,
    116, 114, 111, 32, 34, 112, 97, 108, 97, 98, 114, 97, 34, 46, 32, 69,
    106, 101, 109, 112, 108, 111, 58, 32, 47, 99, 111, 109, 112, 114, 111,
    98, 97, 114, 63, 112, 97, 108, 97, 98, 114, 97, 61, 114, 97, 100, 97,
    114>>

\* 'Error interno del servidor' (line 141)
TxtErrorInterno ==
  <<69, 114, 114, 111, 114, 32, 105, 110, 116, 101, 114, 110, 111, 32, 100,
    101, 108, 32, 115, 101, 114, 118, 105, 100, 111, 114>>

\* 'La palabra ' (line 118)
TxtLaPalabra ==
  <<76, 97, 32, 112, 97, 108, 97, 98, 114, 97, 32>>

\* 'es' (lines 68, 119)
TxtEs ==
  <<101, 115>>

\* 'NO es' (lines 68, 119)
TxtNoEs ==
  <<78, 79, 32, 101, 115>>

\* ' un palindromo', i-acute = 237 (line 120)
TxtUnPalindromo ==
  <<32, 117, 110, 32, 112, 97, 108, 237, 110, 100, 114, 111, 109, 111>>

\* the head of the log line (line 67)
TxtElUsuario ==
  <<69, 108, 32, 117, 115, 117, 97, 114, 105, 111, 32, 104, 97, 32, 99,
    111, 109, 112, 114, 111, 98, 97, 100, 111, 32, 108, 97, 32, 112, 97,
    108, 97, 98, 114, 97, 32, 34>>

\* '" y ' (line 67)
TxtQuoteY ==
  <<34, 32, 121, 32>>

\* ' un palindromo.\n' (line 69)
TxtUnPalindromoNl ==
  <<32, 117, 110, 32, 112, 97, 108, 237, 110, 100, 114, 111, 109, 111, 46,
    10>>

\* the form page's title (line 89)
TxtTitleForm ==
  <<67, 111, 109, 112, 114, 111, 98, 97, 114, 32, 112, 97, 108, 237, 110,
    100, 114, 111, 109, 111>>

\* the form page's body (lines 90-99)
TxtFormBody ==
  <<10, 32, 32, 32, 32, 32, 32, 32, 32, 32, 32, 60, 104, 49, 62, 67, 111,
    109, 112, 114, 111, 98, 97, 114, 32, 112, 97, 108, 237, 110, 100, 114,
    111, 109, 111, 60, 47, 104, 49, 62, 10, 32, 32, 32, 32, 32, 32, 32,
    32, 32, 32, 60, 112, 32, 99, 108, 97, 115, 115, 61, 34, 109, 117, 116,
    101, 100, 34, 62, 69, 115, 116, 101, 32, 102, 111, 114, 109, 117, 108,
    97, 114, 105, 111, 32, 101, 110, 118, 237, 97, 32, 117, 110, 97, 32,
    112, 101, 116, 105, 99, 105, 243, 110, 32, 60, 99, 111, 100, 101, 62,
    71, 69, 84, 60, 47, 99, 111, 100, 101, 62, 32, 97, 108, 32, 101, 110,
    100, 112, 111, 105, 110, 116, 32, 60, 99, 111, 100, 101, 62, 47, 99,
    111, 109, 112, 114, 111, 98, 97, 114, 60, 47, 99, 111, 100, 101, 62,
    46, 60, 47, 112, 62, 10, 32, 32, 32, 32, 32, 32, 32, 32, 32, 32, 60,
    102, 111, 114, 109, 32, 97, 99, 116, 105, 111, 110, 61, 34, 47, 99,
    111, 109, 112, 114, 111, 98, 97, 114, 34, 32, 109, 101, 116, 104, 111,
    100, 61, 34, 71, 69, 84, 34, 62, 10, 32, 32, 32, 32, 32, 32, 32, 32,
    32, 32, 32, 32, 60, 108, 97, 98, 101, 108, 32, 102, 111, 114, 61, 34,
    112, 97, 108, 97, 98, 114, 97, 34, 62, 80, 97, 108, 97, 98, 114, 97,
    60, 47, 108, 97, 98, 101, 108, 62, 10, 32, 32, 32, 32, 32, 32, 32, 32,
    32, 32, 32, 32, 60, 105, 110, 112, 117, 116, 32, 105, 100, 61, 34,
    112, 97, 108, 97, 98, 114, 97, 34, 32, 110, 97, 109, 101, 61, 34, 112,
    97, 108, 97, 98, 114, 97, 34, 32, 116, 121, 112, 101, 61, 34, 116,
    101, 120, 116, 34, 32, 114, 101, 113, 117, 105, 114, 101, 100, 32, 97,
    117, 116, 111, 99, 111, 109, 112, 108, 101, 116, 101, 61, 34, 111,
    102, 102, 34, 32, 47, 62, 10, 32, 32, 32, 32, 32, 32, 32, 32, 32, 32,
    32, 32, 60, 98, 117, 116, 116, 111, 110, 32, 116, 121, 112, 101, 61,
    34, 115, 117, 98, 109, 105, 116, 34, 62, 67, 111, 109, 112, 114, 111,
    98, 97, 114, 60, 47, 98, 117, 116, 116, 111, 110, 62, 10, 32, 32, 32,
    32, 32, 32, 32, 32, 32, 32, 60, 47, 102, 111, 114, 109, 62, 10, 32,
    32, 32, 32, 32, 32, 32, 32, 32, 32, 60, 112, 32, 99, 108, 97, 115,
    115, 61, 34, 109, 117, 116, 101, 100, 34, 62, 69, 106, 101, 109, 112,
    108, 111, 115, 58, 32, 114, 97, 100, 97, 114, 44, 32, 114, 101, 99,
    111, 110, 111, 99, 101, 114, 44, 32, 8220, 65, 110, 105, 116, 97, 32,
    108, 97, 118, 97, 32, 108, 97, 32, 116, 105, 110, 97, 8221, 44, 32,
    8220, 83, 233, 32, 118, 101, 114, 108, 97, 115, 32, 97, 108, 32, 114,
    101, 118, 233, 115, 8221, 46, 60, 47, 112, 62, 10, 32, 32, 32, 32, 32,
    32, 32, 32>>

\* the not-found page's title (line 135)
TxtTitle404 ==
  <<52, 48, 52>>

\* the not-found page's body (line 136)
TxtNotFound ==
  <<60, 104, 49, 62, 52, 48, 52, 32, 45, 32, 82, 117, 116, 97, 32, 110,
    111, 32, 101, 110, 99, 111, 110, 116, 114, 97, 100, 97, 60, 47, 104,
    49, 62, 60, 112, 62, 60, 97, 32, 104, 114, 101, 102, 61, 34, 47, 34,
    62, 86, 111, 108, 118, 101, 114, 60, 47, 97, 62, 60, 47, 112, 62>>

\* page's default title (line 23)
TxtDefaultTitle ==
  <<83, 101, 114, 118, 105, 100, 111, 114, 32, 100, 101, 32, 112, 97, 108,
    237, 110, 100, 114, 111, 109, 111, 115>>

\* page's template up to the title (lines 24-28)
TxtPageHead ==
  <<60, 33, 100, 111, 99, 116, 121, 112, 101, 32, 104, 116, 109, 108, 62,
    10, 60, 104, 116, 109, 108, 32, 108, 97, 110, 103, 61, 34, 101, 115,
    34, 62, 10, 32, 32, 60, 104, 101, 97, 100, 62, 10, 32, 32, 32, 32, 60,
    109, 101, 116, 97, 32, 99, 104, 97, 114, 115, 101, 116, 61, 34, 117,
    116, 102, 45, 56, 34, 32, 47, 62, 10, 32, 32, 32, 32, 60, 116, 105,
    116, 108, 101, 62>>

\* page's template between the title and the body (lines 28-38)
TxtPageMid ==
  <<60, 47, 116, 105, 116, 108, 101, 62, 10, 32, 32, 32, 32, 60, 109, 101,
    116, 97, 32, 110, 97, 109, 101, 61, 34, 118, 105, 101, 119, 112, 111,
    114, 116, 34, 32, 99, 111, 110, 116, 101, 110, 116, 61, 34, 119, 105,
    100, 116, 104, 61, 100, 101, 118, 105, 99, 101, 45, 119, 105, 100,
    116, 104, 44, 32, 105, 110, 105, 116, 105, 97, 108, 45, 115, 99, 97,
    108, 101, 61, 49, 34, 32, 47, 62, 10, 32, 32, 32, 32, 60, 115, 116,
    121, 108, 101, 62, 10, 32, 32, 32, 32, 32, 32, 98, 111, 100, 121, 123,
    102, 111, 110, 116, 45, 102, 97, 109, 105, 108, 121, 58, 32, 117, 105,
    45, 115, 97, 110, 115, 45, 115, 101, 114, 105, 102, 44, 32, 115, 121,
    115, 116, 101, 109, 45, 117, 105, 44, 32, 45, 97, 112, 112, 108, 101,
    45, 115, 121, 115, 116, 101, 109, 44, 32, 83, 101, 103, 111, 101, 32,
    85, 73, 44, 32, 82, 111, 98, 111, 116, 111, 44, 32, 85, 98, 117, 110,
    116, 117, 44, 32, 67, 97, 110, 116, 97, 114, 101, 108, 108, 44, 32,
    78, 111, 116, 111, 32, 83, 97, 110, 115, 44, 32, 65, 114, 105, 97,
    108, 59, 32, 109, 97, 114, 103, 105, 110, 58, 50, 114, 101, 109, 59,
    32, 108, 105, 110, 101, 45, 104, 101, 105, 103, 104, 116, 58, 49, 46,
    53, 53, 125, 10, 32, 32, 32, 32, 32, 32, 105, 110, 112, 117, 116, 44,
    98, 117, 116, 116, 111, 110, 123, 102, 111, 110, 116, 58, 105, 110,
    104, 101, 114, 105, 116, 59, 32, 112, 97, 100, 100, 105, 110, 103, 58,
    46, 53, 114, 101, 109, 32, 46, 55, 114, 101, 109, 125, 10, 32, 32, 32,
    32, 32, 32, 108, 97, 98, 101, 108, 123, 100, 105, 115, 112, 108, 97,
    121, 58, 98, 108, 111, 99, 107, 59, 32, 109, 97, 114, 103, 105, 110,
    58, 46, 55, 53, 114, 101, 109, 32, 48, 32, 46, 51, 53, 114, 101, 109,
    125, 10, 32, 32, 32, 32, 32, 32, 46, 109, 117, 116, 101, 100, 123, 99,
    111, 108, 111, 114, 58, 35, 48, 48, 48, 56, 125, 10, 32, 32, 32, 32,
    32, 32, 99, 111, 100, 101, 123, 98, 97, 99, 107, 103, 114, 111, 117,
    110, 100, 58, 35, 48, 48, 48, 49, 59, 32, 112, 97, 100, 100, 105, 110,
    103, 58, 46, 49, 114, 101, 109, 32, 46, 51, 53, 114, 101, 109, 59, 32,
    98, 111, 114, 100, 101, 114, 45, 114, 97, 100, 105, 117, 115, 58, 52,
    112, 120, 125, 10, 32, 32, 32, 32, 60, 47, 115, 116, 121, 108, 101,
    62, 10, 32, 32, 60, 47, 104, 101, 97, 100, 62, 10, 32, 32, 60, 98,
    111, 100, 121, 62>>

\* page's template after the body (lines 38-39)
TxtPageTail ==
  <<60, 47, 98, 111, 100, 121, 62, 10, 60, 47, 104, 116, 109, 108, 62>>

\* '/' (line 87)
PathRoot ==
  <<47>>

\* '/comprobar' (line 105)
PathComprobar ==
  <<47, 99, 111, 109, 112, 114, 111, 98, 97, 114>>

\* the key palabra (line 107)
KeyPalabra ==
  <<112, 97, 108, 97, 98, 114, 97>>

---------------------------------------------------------------------------
(* Responses (src/app.js:11-40).                                           *)

\* sendText(res, text, status): writeHead(status, text/plain) and end(text)
sendText(text, status) ==
  [status |-> status, ctype |-> "text/plain; charset=utf-8", body |-> text]

\* sendHtml(res, html, status): writeHead(status, text/html) and end(html)
sendHtml(html, status) ==
  [status |-> status, ctype |-> "text/html; charset=utf-8", body |-> html]

\* a field left out of page's argument
Undefined ==
  [kind |-> "undefined", text |-> <<>>]

\* page({ title = 'Servidor de palindromos', body = '' }): the template with
\* the title and the body in their places, a field left out taking its default
page(opts) ==
  LET title == IF opts.title.kind = "undefined" THEN TxtDefaultTitle
               ELSE opts.title.text
      body == IF opts.body.kind = "undefined" THEN <<>> ELSE opts.body.text
  IN  TxtPageHead \o title \o TxtPageMid \o body \o TxtPageTail

---------------------------------------------------------------------------
(* URL and query string parsing (src/app.js:83-84, 106-107).               *)

\* the least index of code unit c in s, 0 when there is none
IndexOf(s, c) ==
  IF \E i \in 1..Len(s) : s[i] = c
  THEN CHOOSE i \in 1..Len(s) : s[i] = c /\ \A j \in 1..(i - 1) : s[j] # c
  ELSE 0

RECURSIVE Split(_, _)
\* String.prototype.split with a separator of one code unit
Split(s, c) ==
  LET i == IndexOf(s, c)
  IN  IF i = 0 THEN <<s>>
      ELSE <<SubSeq(s, 1, i - 1)>> \o Split(SubSeq(s, i + 1, Len(s)), c)

\* const [pathname = '/', queryString = ''] = req.url.split('?'): split
\* returns at least one piece, so only queryString can take its default
UrlParts(url) ==
  LET parts == Split(url, 63)
  IN  [pathname |-> parts[1],
       queryString |-> IF Len(parts) >= 2 THEN parts[2] ELSE <<>>]

\* queryString.replace(/^\?/, '')
StripLeadingQuestion(qs) ==
  IF qs # <<>> /\ Head(qs) = 63 THEN Tail(qs) ELSE qs

\* the value of a hexadecimal digit, 16 for any other code unit
HexValue(c) ==
  IF c >= 48 /\ c <= 57 THEN c - 48
  ELSE IF c >= 65 /\ c <= 70 THEN c - 55
  ELSE IF c >= 97 /\ c <= 102 THEN c - 87
  ELSE 16

RECURSIVE DecodePercent(_)
\* querystring.unescape: '%' and two hexadecimal digits are the code unit
\* they name (below %80 here), any other '%' stays
DecodePercent(s) ==
  IF s = <<>> THEN <<>>
  ELSE IF /\ Head(s) = 37
          /\ Len(s) >= 3
          /\ HexValue(s[2]) < 8
          /\ HexValue(s[3]) < 16
    THEN <<16 * HexValue(s[2]) + HexValue(s[3])>>
           \o DecodePercent(SubSeq(s, 4, Len(s)))
  ELSE <<Head(s)>> \o DecodePercent(Tail(s))

\* how querystring.parse decodes a key or a value: each '+' becomes a
\* space, then the text is unescaped
Unescape(s) ==
  DecodePercent([i \in 1..Len(s) |-> IF s[i] = 43 THEN 32 ELSE s[i]])

\* one segment of the query string: split at its first '=', a segment
\* without '=' is a key with the empty value
ParseSegment(seg) ==
  LET i == IndexOf(seg, 61)
  IN  IF i = 0 THEN [key |-> Unescape(seg), val |-> <<>>]
      ELSE [key |-> Unescape(SubSeq(seg, 1, i - 1)),
            val |-> Unescape(SubSeq(seg, i + 1, Len(seg)))]

\* querystring.parse: the segments between '&', empty ones skipped, as
\* decoded key/value entries in the order of the query string
QsParse(qs) ==
  LET segs == SelectSeq(Split(qs, 38), LAMBDA seg : seg # <<>>)
  IN  [i \in 1..Len(segs) |-> ParseSegment(segs[i])]

\* query[key]: no entry is undefined (the empty sequence here), one entry is
\* its string, several entries are the array of their values in order
QueryGet(query, key) ==
  LET hits == SelectSeq(query, LAMBDA e : e.key = key)
  IN  [i \in 1..Len(hits) |-> hits[i].val]

RECURSIVE JoinComma(_)
\* Array.prototype.join(','), which String(array) applies
JoinComma(vals) ==
  IF vals = <<>> THEN <<>>
  ELSE IF Len(vals) = 1 THEN vals[1]
  ELSE vals[1] \o <<44>> \o JoinComma(Tail(vals))

\* the last occurrence alone, the others dropped
LastValue(vals) ==
  vals[Len(vals)]

\* String(query.palabra) for a defined query.palabra: a string is itself, an
\* array is its values joined by commas
StringOfValues(vals) ==
  JoinComma(vals)

\* WhiteSpace and LineTerminator code units, what String.prototype.trim cuts
IsSpace(c) ==
  c \in {9, 10, 11, 12, 13, 32, 160, 5760, 8232, 8233, 8239, 8287, 12288, 65279}
    \/ c \in 8192..8202

RECURSIVE TrimStart(_)
TrimStart(s) ==
  IF s # <<>> /\ IsSpace(Head(s)) THEN TrimStart(Tail(s)) ELSE s

RECURSIVE TrimEnd(_)
TrimEnd(s) ==
  IF s # <<>> /\ IsSpace(s[Len(s)]) THEN TrimEnd(SubSeq(s, 1, Len(s) - 1)) ELSE s

\* String.prototype.trim
Trim(s) ==
  TrimEnd(TrimStart(s))

\* palabraRaw with the trim call forgotten
PalabraRawNoTrim(query) ==
  LET vals == QueryGet(query, KeyPalabra)
  IN  IF vals = <<>> THEN <<>> ELSE StringOfValues(vals)

\* query?.palabra != null ? String(query.palabra).trim() : ''
PalabraRaw(query) ==
  LET vals == QueryGet(query, KeyPalabra)
  IN  IF vals = <<>> THEN <<>> ELSE Trim(StringOfValues(vals))

---------------------------------------------------------------------------
(* The message and the log line (src/app.js:65-71, 118-120).               *)

\* result ? 'es' : 'NO es'
EsNoEs(result) ==
  IF result THEN TxtEs ELSE TxtNoEs

\* `La palabra ${palabraRaw} ${resultado ? 'es' : 'NO es'} un palindromo`
Mensaje(palabraRaw, resultado) ==
  TxtLaPalabra \o palabraRaw \o <<32>> \o EsNoEs(resultado) \o TxtUnPalindromo

\* the log line with the verdict's two words exchanged
LogLineInverted(originalWord, result) ==
  TxtElUsuario \o originalWord \o TxtQuoteY \o EsNoEs(~result) \o TxtUnPalindromoNl

\* logQuery's line: `El usuario ha comprobado la palabra "${originalWord}" y
\* ${result ? 'es' : 'NO es'} un palindromo.\n`
LogLine(originalWord, result) ==
  TxtElUsuario \o originalWord \o TxtQuoteY \o EsNoEs(result) \o TxtUnPalindromoNl

IsHighSurrogate(c) == c >= 55296 /\ c <= 56319
IsLowSurrogate(c) == c >= 56320 /\ c <= 57343

RECURSIVE Utf8(_)
\* the bytes fs.appendFile writes for a string with the encoding 'utf8':
\* one byte below U+0080, two below U+0800, three for the other code units,
\* four for a surrogate pair, EF BF BD for a surrogate on its own
Utf8(s) ==
  IF s = <<>> THEN <<>>
  ELSE LET c == Head(s)
       IN  IF c < 128 THEN <<c>> \o Utf8(Tail(s))
           ELSE IF c < 2048
             THEN <<192 + (c \div 64), 128 + (c % 64)>> \o Utf8(Tail(s))
           ELSE IF IsHighSurrogate(c) /\ Len(s) >= 2 /\ IsLowSurrogate(s[2])
             THEN LET p == 65536 + (c - 55296) * 1024 + (s[2] - 56320)
                  IN  <<240 + (p \div 262144), 128 + ((p \div 4096) % 64),
                        128 + ((p \div 64) % 64), 128 + (p % 64)>>
                        \o Utf8(Tail(Tail(s)))
           ELSE IF IsHighSurrogate(c) \/ IsLowSurrogate(c)
             THEN <<239, 191, 189>> \o Utf8(Tail(s))
           ELSE <<224 + (c \div 4096), 128 + ((c \div 64) % 64), 128 + (c % 64)>>
                  \o Utf8(Tail(s))

---------------------------------------------------------------------------
(* The request handler (src/app.js:75-143).                                *)

RECURSIVE JoinSegments(_)
\* the segments key=value of a request, joined by '&'
JoinSegments(segs) ==
  IF segs = <<>> THEN <<>>
  ELSE LET first == Head(segs).key \o <<61>> \o Head(segs).val
       IN  IF Len(segs) = 1 THEN first
           ELSE first \o <<38>> \o JoinSegments(Tail(segs))

\* req.url as Node hands it over: the path, then '?' and the query string
\* when the request carries one
RawUrl(req) ==
  req.path \o (IF req.hasQuery THEN <<63>> \o JoinSegments(req.segs) ELSE <<>>)

\* what the handler does up to its first await or to its response:
\* a response, or the call of logQuery with its arguments
Respond(response) ==
  [kind |-> "respond", response |-> response,
   palabraRaw |-> <<>>, checked |-> FALSE, resultado |-> FALSE, mensaje |-> <<>>]

AwaitLog(palabraRaw, resultado) ==
  [kind |-> "await", response |-> sendText(<<>>, 0),
   palabraRaw |-> palabraRaw, checked |-> TRUE, resultado |-> resultado,
   mensaje |-> Mensaje(palabraRaw, resultado)]

\* lines 88-100: the page with the form
FormPage ==
  page([title |-> Str(TxtTitleForm), body |-> Str(TxtFormBody)])

\* lines 134-137: the page of an unknown route
NotFoundPage ==
  page([title |-> Str(TxtTitle404), body |-> Str(TxtNotFound)])

\* lines 82-138: the routes of a GET request
DispatchGet(req) ==
  LET parts == UrlParts(RawUrl(req))
      query == QsParse(StripLeadingQuestion(parts.queryString))
      palabraRaw == PalabraRaw(query)
  IN  IF parts.pathname = PathRoot
        THEN Respond(sendHtml(FormPage, 200))
      ELSE IF parts.pathname = PathComprobar
        THEN IF palabraRaw = <<>>
               THEN Respond(sendText(TxtFalta, 400))
               ELSE AwaitLog(palabraRaw, isPalindrome(Str(palabraRaw)))
      ELSE Respond(sendHtml(NotFoundPage, 404))

\* the handler with the test of req.method left out
DispatchAnyMethod(req) ==
  DispatchGet(req)

\* lines 77-80, then the routes
Dispatch(req) ==
  IF req.method # "GET"
    THEN Respond(sendText(TxtMethodNotAllowed, 405))
    ELSE DispatchGet(req)

NoRequest ==
  [method |-> "", path |-> <<>>, hasQuery |-> FALSE, segs |-> <<>>]

Idle ==
  [pc |-> "idle", req |-> NoRequest, palabraRaw |-> <<>>, checked |-> FALSE,
   resultado |-> FALSE, mensaje |-> <<>>, line |-> <<>>, data |-> <<>>,
   written |-> 0, shortWrites |-> 0, appends |-> 0,
   appendState |-> "none", responses |-> <<>>]

\* The server calls the handler for request id.  The handler runs without
\* interruption to its response or, for a valid /comprobar, into logQuery,
\* which builds the line and calls fs.appendFile; the handler then waits.
Receive(id, req) ==
  /\ handlers[id].pc = "idle"
  /\ LET d == Dispatch(req)
     IN  handlers' = [handlers EXCEPT ![id] =
           IF d.kind = "respond"
           THEN [Idle EXCEPT !.pc = "done", !.req = req,
                             !.responses = <<d.response>>]
           ELSE [Idle EXCEPT !.pc = "awaitLog", !.req = req,
                             !.palabraRaw = d.palabraRaw, !.checked = d.checked,
                             !.resultado = d.resultado, !.mensaje = d.mensaje,
                             !.line = LogLine(d.palabraRaw, d.resultado),
                             !.data = Utf8(LogLine(d.palabraRaw, d.resultado)),
                             !.appends = 1]]
  /\ UNCHANGED <<log, normVars>>

RECURSIVE ShortWritesOf(_)
\* the write calls of the handlers 1..n that wrote fewer bytes than given
ShortWritesOf(n) ==
  IF n = 0 THEN 0 ELSE handlers[n].shortWrites + ShortWritesOf(n - 1)

\* the bytes of its line that the append of handler id has yet to write
Remaining(id) ==
  Len(handlers[id].data) - handlers[id].written

\* fs.appendFile writes in a loop, each write call awaited, until every byte
\* of the line is written.  One write call adds bytes to the end of the file
\* (O_APPEND): all that were left, or fewer (a short write, cut at any byte,
\* inside a character too).  The append stays pending, and the other
\* handlers run before its next step
AppendWrite(id) ==
  /\ handlers[id].pc = "awaitLog"
  /\ \E n \in 1..Remaining(id) :
       /\ n < Remaining(id) => ShortWritesOf(MaxReq) < MaxShortWrites
       /\ log' = log \o SubSeq(handlers[id].data, handlers[id].written + 1,
                               handlers[id].written + n)
       /\ handlers' = [handlers EXCEPT
            ![id].written = @ + n,
            ![id].shortWrites = @ + (IF n < Remaining(id) THEN 1 ELSE 0)]
  /\ UNCHANGED normVars

\* fs.appendFile succeeds: every byte of the line is written, the file is
\* closed and the promise resolves
AppendResolve(id) ==
  /\ handlers[id].pc = "awaitLog"
  /\ Remaining(id) = 0
  /\ handlers' = [handlers EXCEPT ![id].pc = "resume", ![id].appendState = "ok"]
  /\ UNCHANGED <<log, normVars>>

\* fs.appendFile fails: the file cannot be opened, a write call fails (a
\* full disk, a size limit) or the close fails.  The bytes written before
\* stay in the file, none is added, and the promise rejects
AppendReject(id) ==
  /\ handlers[id].pc = "awaitLog"
  /\ handlers' = [handlers EXCEPT ![id].pc = "resume", ![id].appendState = "failed"]
  /\ UNCHANGED <<log, normVars>>

\* the handler with the try/catch around logQuery left out: a rejection
\* reaches the outer catch, which answers 500
ContinueRethrow(id) ==
  /\ handlers[id].pc = "resume"
  /\ handlers' = [handlers EXCEPT
       ![id].pc = "done",
       ![id].responses = @ \o
         <<IF handlers[id].appendState = "failed"
           THEN sendText(TxtErrorInterno, 500)
           ELSE sendText(handlers[id].mensaje, 200)>>]
  /\ UNCHANGED <<log, normVars>>

\* the handler answering and then falling through to a second sendText
ContinueTwice(id) ==
  /\ handlers[id].pc = "resume"
  /\ handlers' = [handlers EXCEPT
       ![id].pc = "done",
       ![id].responses = @ \o <<sendText(handlers[id].mensaje, 200),
                                sendText(handlers[id].mensaje, 200)>>]
  /\ UNCHANGED <<log, normVars>>

\* lines 123-130: the await returns or throws; a rejection is caught and
\* reported to the console; either way sendText(res, mensaje) answers 200
Continue(id) ==
  /\ handlers[id].pc = "resume"
  /\ handlers' = [handlers EXCEPT
       ![id].pc = "done",
       ![id].responses = @ \o <<sendText(handlers[id].mensaje, 200)>>]
  /\ UNCHANGED <<log, normVars>>

---------------------------------------------------------------------------
(* The requests of the model.                                              *)

\* the code unit of the short raw query values: a
ValChars == {97}

\* a%0Ab: the word a, line feed, b
ValueLineFeed == <<97, 37, 48, 65, 98>>

\* raw values: the short ones, and "+", "+a+", "b", "ab" and "a%0Ab"
RawValues ==
  SeqsUpTo(ValChars, MaxValLen)
    \cup {<<43>>, <<43, 97, 43>>, <<98>>, <<97, 98>>, ValueLineFeed}

\* segments palabra=v, and the segment x=a of another key
Segments ==
  {[key |-> KeyPalabra, val |-> v] : v \in RawValues}
    \cup {[key |-> <<120>>, val |-> <<97>>]}

\* the segments a query string holds several of: palabra=a, palabra=b,
\* palabra=+, palabra=+a+, palabra=ab and x=a
RepeatSegments ==
  {[key |-> KeyPalabra, val |-> v] :
     v \in {<<97>>, <<98>>, <<43>>, <<43, 97, 43>>, <<97, 98>>}}
    \cup {[key |-> <<120>>, val |-> <<97>>]}

\* the query strings, as sequences of segments: one segment of any kind, or
\* at most MaxPairs segments among RepeatSegments
Queries ==
  {<<g>> : g \in Segments} \cup SeqsUpTo(RepeatSegments, MaxPairs)

\* the paths /, /comprobar and /otra
Paths == {PathRoot, PathComprobar, <<47, 111, 116, 114, 97>>}

\* SpecRoute: every method, path and query string within the bounds
WideRequests ==
  {[method |-> m, path |-> p, hasQuery |-> q, segs |-> s] :
     m \in {"GET", "POST"}, p \in Paths, q \in BOOLEAN,
     s \in Queries} \ 
  {r \in [method : {"GET", "POST"}, path : Paths, hasQuery : {FALSE},
          segs : Queries] : r.segs # <<>>}

Get(path, segs) ==
  [method |-> "GET", path |-> path, hasQuery |-> segs # <<>>, segs |-> segs]

\* Spec: a palindrome, a non-palindrome, a word of two lines, a blank
\* palabra, the form, an unknown path and a POST
ConcRequests ==
  {Get(PathComprobar, <<[key |-> KeyPalabra, val |-> <<97>>]>>),
   Get(PathComprobar, <<[key |-> KeyPalabra, val |-> <<97, 98>>]>>),
   Get(PathComprobar, <<[key |-> KeyPalabra, val |-> ValueLineFeed]>>),
   Get(PathComprobar, <<[key |-> KeyPalabra, val |-> <<43>>]>>),
   Get(PathRoot, <<>>),
   Get(<<47, 111, 116, 114, 97>>, <<>>),
   [Get(PathComprobar, <<[key |-> KeyPalabra, val |-> <<97>>]>>)
      EXCEPT !.method = "POST"]}

---------------------------------------------------------------------------
(* Spec: MaxReq requests handled concurrently.  SpecFair: the same, every  *)
(* pending append ends and every resumed handler runs.  SpecRoute: one     *)
(* request, drawn from WideRequests.                                       *)

Init ==
  /\ handlers = [id \in 1..MaxReq |-> Idle]
  /\ log = <<>>
  /\ word = Str(<<>>)
  /\ norm = <<>>
  /\ renorm = <<>>
  /\ verdict = FALSE
  /\ npc = "off"

Next ==
  \E id \in 1..MaxReq :
    \/ \E req \in ConcRequests : Receive(id, req)
    \/ AppendWrite(id)
    \/ AppendResolve(id)
    \/ AppendReject(id)
    \/ Continue(id)

Spec == Init /\ [][Next]_vars

Fairness ==
  \A id \in 1..MaxReq :
    /\ WF_vars(AppendWrite(id) \/ AppendResolve(id) \/ AppendReject(id))
    /\ WF_vars(Continue(id))

SpecFair == Init /\ [][Next]_vars /\ Fairness

NextRoute ==
  \/ \E req \in WideRequests : Receive(1, req)
  \/ AppendWrite(1)
  \/ AppendResolve(1)
  \/ AppendReject(1)
  \/ Continue(1)

SpecRoute == Init /\ [][NextRoute]_vars

---------------------------------------------------------------------------
(* SpecNorm: the normalizer and the checker applied to bounded inputs.     *)

\* the code units the inputs of SpecNorm are made of: space, comma, 1, A, a,
\* b, E-acute, sharp s, e-acute, I-with-dot, the combining acute accent
\* (class 230) and the combining cedilla (class 202)
NormChars == {32, 44, 49, 65, 97, 98, 201, 223, 233, 304, 769, 807}

NormInputs ==
  {Str(s) : s \in SeqsUpTo(NormChars, MaxLen)}
    \cup {[kind |-> "null", text |-> <<>>], [kind |-> "undefined", text |-> <<>>]}

InitNorm ==
  /\ word \in NormInputs
  /\ norm = <<>>
  /\ renorm = <<>>
  /\ verdict = FALSE
  /\ npc = "start"
  /\ handlers = [id \in 1..MaxReq |-> Idle]
  /\ log = <<>>

CallNormalize ==
  /\ npc = "start"
  /\ norm' = normalizeWord(word)
  /\ npc' = "normalized"
  /\ UNCHANGED <<word, renorm, verdict, serverVars>>

CallRenormalize ==
  /\ npc = "normalized"
  /\ renorm' = normalizeWord(Str(norm))
  /\ npc' = "renormalized"
  /\ UNCHANGED <<word, norm, verdict, serverVars>>

CallIsPalindrome ==
  /\ npc = "renormalized"
  /\ verdict' = isPalindrome(word)
  /\ npc' = "checked"
  /\ UNCHANGED <<word, norm, renorm, serverVars>>

NextNorm ==
  \/ CallNormalize
  \/ CallRenormalize
  \/ CallIsPalindrome

SpecNorm == InitNorm /\ [][NextNorm]_vars

---------------------------------------------------------------------------
(* Vocabulary of the properties.  These definitions restate what a request *)
(* asks for and what the documented texts are; they are computed from the  *)
(* request's parts, not from the URL the handler parses.                   *)

\* handler id has answered
Done(id) ==
  handlers[id].pc = "done"

\* request id is a GET for /comprobar
IsComprobar(id) ==
  handlers[id].req.method = "GET" /\ handlers[id].req.path = PathComprobar

RECURSIVE Meant(_)
\* the text a raw value stands for: '+' is a space, %0A a line feed
Meant(v) ==
  IF v = <<>> THEN <<>>
  ELSE IF Len(v) >= 3 /\ SubSeq(v, 1, 3) = <<37, 48, 65>>
    THEN <<10>> \o Meant(SubSeq(v, 4, Len(v)))
  ELSE <<IF Head(v) = 43 THEN 32 ELSE Head(v)>> \o Meant(Tail(v))

\* the values the request gives for palabra, in order
GivenValues(req) ==
  LET segs == SelectSeq(req.segs, LAMBDA g : g.key = KeyPalabra)
  IN  [i \in 1..Len(segs) |-> Meant(segs[i].val)]

\* every code unit of s is a blank
AllBlank(s) ==
  \A i \in 1..Len(s) : s[i] \in {9, 10, 11, 12, 13, 32, 160}

\* s without its leading and trailing blanks
Trimmed(s) ==
  IF AllBlank(s) THEN <<>>
  ELSE LET a == CHOOSE i \in 1..Len(s) :
                  ~AllBlank(<<s[i]>>) /\ AllBlank(SubSeq(s, 1, i - 1))
           b == CHOOSE i \in 1..Len(s) :
                  ~AllBlank(<<s[i]>>) /\ AllBlank(SubSeq(s, i + 1, Len(s)))
       IN  SubSeq(s, a, b)

RECURSIVE CommaJoined(_)
\* the values separated by commas
CommaJoined(vals) ==
  IF vals = <<>> THEN <<>>
  ELSE IF Len(vals) = 1 THEN vals[1]
  ELSE vals[1] \o <<44>> \o CommaJoined(Tail(vals))

\* the word of a request: its palabra values joined by commas, trimmed
GivenWord(req) ==
  Trimmed(CommaJoined(GivenValues(req)))

\* the word of a request when only the last palabra value counts
LastGivenWord(req) ==
  Trimmed(GivenValues(req)[Len(GivenValues(req))])

\* n reads the same in both directions
Mirrored(n) ==
  \A i \in 1..Len(n) : n[i] = n[Len(n) + 1 - i]

\* "La palabra <w> es un palindromo" / "La palabra <w> NO es un palindromo"
ExpectedMensaje(w, v) ==
  TxtLaPalabra \o w \o (IF v THEN <<32, 101, 115>> ELSE <<32, 78, 79, 32, 101, 115>>)
    \o TxtUnPalindromo

\* 'El usuario ha comprobado la palabra "<w>" y <es/NO es> un palindromo.'
\* and the line feed
ExpectedRecord(w, v) ==
  TxtElUsuario \o w \o <<34, 32, 121>>
    \o (IF v THEN <<32, 101, 115>> ELSE <<32, 78, 79, 32, 101, 115>>)
    \o TxtUnPalindromo \o <<46, 10>>

\* the number of line feeds among the bytes s
CountLines(s) ==
  Cardinality({i \in 1..Len(s) : s[i] = 10})

\* no handler is between its request and its response
Quiescent ==
  \A id \in 1..MaxReq : handlers[id].pc \in {"idle", "done"}

\* the requests /comprobar has answered with 200
Answered200 ==
  {id \in 1..MaxReq :
     Done(id) /\ IsComprobar(id) /\ handlers[id].responses[1].status = 200}

\* the orders in which the members of S can follow each other
Orders(S) ==
  {o \in [1..Cardinality(S) -> S] : \A i, j \in 1..Cardinality(S) : o[i] = o[j] => i = j}

---------------------------------------------------------------------------
(* C1 *)

\* C1: isPalindrome(s) is true exactly when normalizeWord(s) is not empty and
\* reads the same in both directions; an empty normalized form gives false.
C1_PalindromeIffMirrored ==
  npc = "checked" => (verdict <=> (norm # <<>> /\ Mirrored(norm)))

\* a phrase that normalization shortens to a palindrome of several letters
C1_Witness ==
  /\ npc = "checked"
  /\ verdict
  /\ Len(norm) >= 2
  /\ Len(word.text) > Len(norm)

---------------------------------------------------------------------------
(* C2 *)

\* C2: a GET /comprobar whose palabra is not blank is answered 200 with the
\* body "La palabra <w> es un palindromo" or "La palabra <w> NO es un
\* palindromo", w the trimmed raw value and the verdict isPalindrome(w),
\* whether the append to the log succeeded or failed.
C2_ValidCheckAnswers200 ==
  \A id \in 1..MaxReq :
    (Done(id) /\ IsComprobar(id) /\ GivenWord(handlers[id].req) # <<>>)
      => LET w == GivenWord(handlers[id].req)
         IN  handlers[id].responses =
               <<[status |-> 200, ctype |-> "text/plain; charset=utf-8",
                  body |-> ExpectedMensaje(w, isPalindrome(Str(w)))]>>

\* a padded word answered 200 although its append failed
C2_Witness ==
  \E id \in 1..MaxReq :
    /\ Done(id)
    /\ IsComprobar(id)
    /\ handlers[id].appendState = "failed"
    /\ handlers[id].responses[1].status = 200
    /\ Len(handlers[id].palabraRaw) < Len(handlers[id].req.segs[1].val)

---------------------------------------------------------------------------
(* C3 *)

\* C3 as stated: once every request is answered, the log has as many lines
\* as /comprobar has given 200 responses.
C3_LinesEqual200s ==
  Quiescent => CountLines(log) = Cardinality(Answered200)

RECURSIVE LineFeedsOf(_)
\* the line feeds in the records of the requests S
LineFeedsOf(S) ==
  IF S = {} THEN 0
  ELSE LET id == CHOOSE i \in S : TRUE
       IN  CountLines(handlers[id].data) + LineFeedsOf(S \ {id})

RECURSIVE Shares(_, _, _)
\* the ways to share out the bytes of s from position pos + 1 on among the
\* records of the requests, each request taking the bytes of its record in
\* their order: F holds the shares of the first pos bytes, a share f giving
\* for each request how many bytes of its record it has taken
Shares(s, pos, F) ==
  IF pos = Len(s) THEN F
  ELSE Shares(s, pos + 1,
         UNION {{[f EXCEPT ![id] = @ + 1] :
                   id \in {i \in DOMAIN f :
                              /\ f[i] < Len(handlers[i].data)
                              /\ handlers[i].data[f[i] + 1] = s[pos + 1]}} :
                f \in F})

\* C3 amended: once every request is answered, each 200 response of
\* /comprobar has made one append, of the UTF-8 bytes of the documented
\* record with the word and verdict of the response.  The log is made of
\* bytes of these records and of nothing else, each record's bytes in their
\* order but not always next to each other: all the bytes of the record of
\* an append that succeeded, some leading bytes (none, a part, all) of the
\* record of one that failed.  So the log has at least the line feeds of the
\* records whose append succeeded and at most those of all the records; a
\* record has one line feed, and those of its word.
C3_RecordBytesInOrder ==
  Quiescent =>
    /\ \A id \in Answered200 :
         LET w == GivenWord(handlers[id].req)
             v == isPalindrome(Str(w))
         IN  /\ handlers[id].responses[1].body = ExpectedMensaje(w, v)
             /\ handlers[id].appends = 1
             /\ handlers[id].data = Utf8(ExpectedRecord(w, v))
             /\ CountLines(handlers[id].data) = 1 + CountLines(w)
    /\ \A id \in (1..MaxReq) \ Answered200 : handlers[id].appends = 0
    /\ \E f \in Shares(log, 0, {[id \in Answered200 |-> 0]}) :
         \A id \in Answered200 :
           handlers[id].appendState = "ok" => f[id] = Len(handlers[id].data)
    /\ CountLines(log) >=
         LineFeedsOf({id \in Answered200 : handlers[id].appendState = "ok"})
    /\ CountLines(log) <= LineFeedsOf(Answered200)

\* two 200 responses: the append of a word of two lines succeeded in two
\* writes, and the append of the other request failed after all its bytes
\* were written between those two writes
C3_Witness ==
  /\ Quiescent
  /\ Cardinality(Answered200) = 2
  /\ \E id \in Answered200 :
       /\ handlers[id].appendState = "ok"
       /\ handlers[id].shortWrites = 1
       /\ CountLines(handlers[id].data) = 2
       /\ SubSeq(log, 1, Len(handlers[id].data)) # handlers[id].data
       /\ SubSeq(log, Len(log) - Len(handlers[id].data) + 1, Len(log))
            # handlers[id].data
  /\ \E id \in Answered200 : handlers[id].appendState = "failed"
  /\ CountLines(log) = 3

---------------------------------------------------------------------------
(* C4 *)

\* C4 as stated: when palabra occurs more than once in a GET /comprobar, the
\* value of its last occurrence is trimmed, validated, checked, echoed and
\* logged.
C4_LastOccurrenceWins ==
  \A id \in 1..MaxReq :
    (Done(id) /\ IsComprobar(id) /\ Len(GivenValues(handlers[id].req)) >= 2)
      => LET w == LastGivenWord(handlers[id].req)
             v == isPalindrome(Str(w))
         IN  IF w = <<>>
             THEN handlers[id].responses[1].status = 400
             ELSE /\ handlers[id].responses[1].status = 200
                  /\ handlers[id].responses[1].body = ExpectedMensaje(w, v)
                  /\ handlers[id].line = ExpectedRecord(w, v)

\* C4 amended: when palabra occurs more than once in a GET /comprobar, the
\* values of all occurrences joined by commas, in order, are the value that
\* is trimmed, validated, checked, echoed and logged.
C4_OccurrencesJoined ==
  \A id \in 1..MaxReq :
    (Done(id) /\ IsComprobar(id) /\ Len(GivenValues(handlers[id].req)) >= 2)
      => LET w == GivenWord(handlers[id].req)
             v == isPalindrome(Str(w))
         IN  /\ w # <<>>
             /\ handlers[id].checked
             /\ handlers[id].resultado = v
             /\ handlers[id].responses[1].status = 200
             /\ handlers[id].responses[1].body = ExpectedMensaje(w, v)
             /\ handlers[id].line = ExpectedRecord(w, v)
             /\ handlers[id].appendState = "ok" => log = Utf8(ExpectedRecord(w, v))

\* palabra=a&palabra=b answered and logged
C4_Witness ==
  \E id \in 1..MaxReq :
    /\ Done(id)
    /\ IsComprobar(id)
    /\ GivenValues(handlers[id].req) = <<(<<97>>), (<<98>>)>>
    /\ handlers[id].appendState = "ok"
    /\ handlers[id].responses[1].status = 200

---------------------------------------------------------------------------
(* C5 *)

\* C5: a GET /comprobar whose palabra is absent, empty or blank is answered
\* 400 with the plain-text message; the checker is not run, no append is
\* attempted and the log stays as it was.
C5_BlankPalabraAnswers400 ==
  \A id \in 1..MaxReq :
    (/\ handlers[id].pc # "idle"
     /\ IsComprobar(id)
     /\ \/ GivenValues(handlers[id].req) = <<>>
        \/ /\ Len(GivenValues(handlers[id].req)) = 1
           /\ AllBlank(GivenValues(handlers[id].req)[1]))
      => /\ Done(id)
         /\ handlers[id].responses =
              <<[status |-> 400, ctype |-> "text/plain; charset=utf-8",
                 body |-> TxtFalta]>>
         /\ ~handlers[id].checked
         /\ handlers[id].appends = 0
         /\ log = <<>>

\* /comprobar?palabra=+ (one blank) answered 400
C5_Witness ==
  \E id \in 1..MaxReq :
    /\ Done(id)
    /\ IsComprobar(id)
    /\ GivenValues(handlers[id].req) = <<(<<32>>)>>
    /\ handlers[id].responses[1].status = 400

---------------------------------------------------------------------------
(* C6 *)

\* C6: a request whose method is not GET is answered 405 "Method Not
\* Allowed" in plain text whatever its path and query string, and appends
\* nothing to the log.
C6_NotGetAnswers405 ==
  \A id \in 1..MaxReq :
    (handlers[id].pc # "idle" /\ handlers[id].req.method # "GET")
      => /\ Done(id)
         /\ handlers[id].responses =
              <<[status |-> 405, ctype |-> "text/plain; charset=utf-8",
                 body |-> TxtMethodNotAllowed]>>
         /\ handlers[id].appends = 0
         /\ log = <<>>

\* POST /comprobar?palabra=a answered 405
C6_Witness ==
  \E id \in 1..MaxReq :
    /\ Done(id)
    /\ handlers[id].req.method = "POST"
    /\ handlers[id].req.path = PathComprobar
    /\ GivenWord(handlers[id].req) = <<97>>
    /\ handlers[id].responses[1].status = 405

---------------------------------------------------------------------------
(* C7 *)

\* C7: normalizeWord applied to its own output returns that output.
C7_NormalizeIdempotent ==
  npc \in {"renormalized", "checked"} => renorm = norm

\* an input that normalization changes, normalized twice
C7_Witness ==
  /\ npc = "renormalized"
  /\ norm # <<>>
  /\ norm # word.text

---------------------------------------------------------------------------
(* C8 *)

\* the letters and digits among the code units of the domain
IsLetterOrDigit(c) ==
  \/ c \in 48..57 \/ c \in 65..90 \/ c \in 97..122
  \/ c \in {170, 181, 186}
  \/ (c \in 192..255 /\ c \notin {215, 247})
  \/ c = 304
  \/ c \in 1040..1103

\* the letters and digits that are an ASCII letter or digit, or such a
\* letter under an accent
HasAsciiBase(c) ==
  \/ c \in 48..57 \/ c \in 65..90 \/ c \in 97..122
  \/ (c \in 192..255 /\ c \notin {198, 208, 215, 216, 222, 223, 230, 240, 247, 248, 254})
  \/ c = 304

\* C8 as stated: isPalindrome is true of every input that is one letter or
\* digit, ASCII or not.
C8_SingleAlphanumericTrue ==
  (npc = "checked" /\ word.kind = "string" /\ Len(word.text) = 1
     /\ IsLetterOrDigit(word.text[1]))
    => verdict

\* C8 amended: isPalindrome is true of an input that is one letter or digit
\* when that character is an ASCII letter or digit or an accented form of
\* one, and false when it is any other letter or digit.
C8_SingleAlphanumericAsciiBase ==
  (npc = "checked" /\ word.kind = "string" /\ Len(word.text) = 1
     /\ IsLetterOrDigit(word.text[1]))
    => (verdict <=> HasAsciiBase(word.text[1]))

\* the single letter E-acute, checked
C8_Witness ==
  /\ npc = "checked"
  /\ word = Str(<<201>>)
  /\ verdict

---------------------------------------------------------------------------
(* C9 *)

\* p is the beginning of s
StartsWith(s, p) ==
  Len(p) <= Len(s) /\ SubSeq(s, 1, Len(p)) = p

RECURSIVE WholeRecords(_, _, _)
\* s is the lines recs[o[1]], recs[o[2]], ... one after the other
WholeRecords(s, o, recs) ==
  IF o = <<>> THEN s = <<>>
  ELSE /\ StartsWith(s, recs[Head(o)])
       /\ WholeRecords(SubSeq(s, Len(recs[Head(o)]) + 1, Len(s)), Tail(o), recs)

\* the requests that have called logQuery
Appenders ==
  {id \in 1..MaxReq : handlers[id].appends = 1}

\* the lines of the requests that have called logQuery, as the bytes given
\* to the file system
Lines ==
  [id \in Appenders |-> handlers[id].data]

\* C9: with handlers interleaving at the await, every line of the log is the
\* complete, unmixed line of exactly one request, and each request
\* contributes at most one line.  Read where the claim is at its strongest
\* for the code: when the append of every request has succeeded (no append
\* is under way, none has failed), the log is the lines of these requests,
\* each whole and once, in some order.
C9_LogIsWholeRecords ==
  (\A id \in Appenders : handlers[id].appendState = "ok")
    => LET recs == Lines
       IN  \E o \in Orders(Appenders) : WholeRecords(log, o, recs)

---------------------------------------------------------------------------
(* C10 *)

\* what holds of handler id at every moment: at most one response, sent
\* exactly when the handler is done, with a status among 200, 400, 404, 405
\* and 500; at most one append, exactly one for a valid /comprobar; and a
\* valid /comprobar answered only after its append succeeded or failed
OneResponseOneAppend(id) ==
  LET h == handlers[id]
  IN  /\ Len(h.responses) <= 1
      /\ (h.pc = "done") <=> (Len(h.responses) = 1)
      /\ \A i \in 1..Len(h.responses) :
           h.responses[i].status \in {200, 400, 404, 405, 500}
      /\ h.appends <= 1
      /\ (h.appends = 1) <=> (h.pc # "idle" /\ IsComprobar(id)
                                /\ GivenWord(h.req) # <<>>)
      /\ (h.pc = "done" /\ h.appends = 1) => h.appendState \in {"ok", "failed"}
      /\ (h.pc = "awaitLog") => h.appendState = "none"

\* C10: every request reaches exactly one response, never two; a valid
\* /comprobar makes one append attempt, is answered only after the attempt
\* ended, and is answered once the attempt has ended, either way.
C10_ExactlyOneResponse ==
  /\ [](\A id \in 1..MaxReq : OneResponseOneAppend(id))
  /\ \A id \in 1..MaxReq :
       (handlers[id].pc # "idle") ~> (Len(handlers[id].responses) = 1)

\* a valid /comprobar answered once after its append failed
C10_Witness ==
  \E id \in 1..MaxReq :
    /\ Done(id)
    /\ handlers[id].appends = 1
    /\ handlers[id].appendState = "failed"
    /\ Len(handlers[id].responses) = 1


=============================================================================
